---- MODULE Spec2Model ----
(***************************************************************************)
(* HTLC escrow of sui-fusion-1inch-mvp: the Move module                    *)
(* htlc_escrow::escrow (docs/htlc_escrow/sources/htlc_escrow.move) and the *)
(* off-chain swap driver of scripts/real_swap.js that creates orders and   *)
(* drives one escrow through deposit and claim, with the demo scripts of   *)
(* scripts/bidirectional_demo.js and the API server's swap routes.         *)
(*                                                                         *)
(* A Move function call is one transaction: an abort reverts every effect  *)
(* of the transaction, so a call either applies all its effects or none.   *)
(* The module keeps no global state: every function works on the one       *)
(* Escrow object it is handed, so the ledger is modelled with one escrow   *)
(* object, the one under observation.                                      *)
(***************************************************************************)
EXTENDS Integers, Sequences, FiniteSets, TLC

VARIABLES
    escrow,     \* the Escrow<T> object, NoEscrow before deposit
    clock,      \* sui::clock timestamp_ms of the ledger
    events,     \* events emitted on the ledger, in order
    received,   \* coin value each address got by transfer::public_transfer
    lastTx,     \* the last transaction or driver step and its abort code
    network,    \* OneinchFusionClient.networkName
    order,      \* the order object createFusionOrder returned, NoOrder before
    swapAmount, \* requiredSui of executeCrossChainSwap, in mist
    pc,         \* position of executeCrossChainSwap
    flow,       \* which coordinator script runs
    ethTxs,     \* transactions EthereumClient has had confirmed, in order
    apiEscrows, \* escrow objects the API server's deposits created, by escrowId
    apiReqs,    \* requests the API server has received, in order of arrival
    hook        \* the React state of useRealSwap and the number of its calls

vars == <<escrow, clock, events, received, lastTx, network, order, swapAmount, pc, flow, ethTxs, apiEscrows, apiReqs, hook>>

ledger == <<escrow, events, received>>

api == <<apiEscrows, apiReqs>>

driver == <<network, order, swapAmount, pc, flow, ethTxs, api, hook>>

----------------------------------------------------------------------------
(* Bounds of the model *)

MaxAmount == 3

MaxTimelock == 1

----------------------------------------------------------------------------
(* Values *)

ALICE == "ALICE"

BOB == "BOB"

CAROL == "CAROL"

Addresses == {ALICE, BOB, CAROL}

\* vector<u8> preimages: the two the tests use
Secrets == {"correct_secret", "wrong_secret"}

\* sui::hash::blake2b256, the hash the escrow module verifies with. Hashes are
\* symbolic: a digest is equal to another only when both the function and the
\* preimage are the same.
Blake2b256(s) == <<"blake2b256", s>>

\* crypto.createHash('sha256').update(secret).digest()
Sha256(s) == <<"sha256", s>>

\* the 32-byte values of the model: the digests of the preimages
HashValues == {Blake2b256(s) : s \in Secrets} \cup {Sha256(s) : s \in Secrets}

NoEscrow == [id |-> 0]

\* escrow::create_auction_params with the arguments the tests pass
create_auction_params(min_amount, max_amount, start_time, end_time, resolver_fee) ==
    [min_amount |-> min_amount, max_amount |-> max_amount,
     start_time |-> start_time, end_time |-> end_time,
     resolver_fee |-> resolver_fee]

\* abort codes of the asserts of withdraw and refund
E_BAD_SECRET == 1000

E_NOT_REDEEMER == 1001

E_TOO_EARLY == 1002

E_NOT_INITIATOR == 1003

E_AMOUNT_ABOVE_DEPOSIT == 1004

E_ZERO_AMOUNT == 1005

\* sui::balance::split aborts with ENotEnough when the balance is below the value
E_BALANCE_NOT_ENOUGH == 2

----------------------------------------------------------------------------
(* htlc_escrow::escrow *)

\* Escrow { .. } built by deposit from a coin of value `value`
NewEscrow(initiator, redeemer, secret_hash, value, timelock, auction_params, pfa) ==
    [id |-> 1,
     initiator |-> initiator,
     redeemer |-> redeemer,
     secret_hash |-> secret_hash,
     amount |-> value,
     balance |-> value,
     timelock |-> timelock,
     auction_params |-> auction_params,
     partial_fills_allowed |-> pfa,
     total_filled |-> 0]

Initiated(e) ==
    [type |-> "Initiated", order_id |-> e.id, secret_hash |-> e.secret_hash,
     amount |-> e.amount, initiator |-> e.initiator, redeemer |-> e.redeemer,
     timelock |-> e.timelock]

Redeemed(e, secret, amount, sender) ==
    [type |-> "Redeemed", order_id |-> e.id, secret |-> secret,
     amount |-> amount, redeemer |-> sender]

PartialFill(e, amount, sender) ==
    [type |-> "PartialFill", order_id |-> e.id, filled_amount |-> amount,
     remaining_amount |-> e.amount - e.total_filled, redeemer |-> sender]

Refunded(e, amount, sender) ==
    [type |-> "Refunded", order_id |-> e.id, amount |-> amount,
     initiator |-> sender]

get_remaining_amount(e) == e.balance

is_fully_filled(e) == e.total_filled = e.amount

\* withdraw without its hash assert
WithdrawAbortNoHashCheck(e, secret, amount, sender) ==
    IF sender # e.redeemer THEN E_NOT_REDEEMER
    ELSE IF ~(amount <= e.amount) THEN E_AMOUNT_ABOVE_DEPOSIT
    ELSE IF ~(amount > 0) THEN E_ZERO_AMOUNT
    ELSE IF e.balance < amount THEN E_BALANCE_NOT_ENOUGH
    ELSE 0

\* withdraw without its redeemer assert
WithdrawAbortNoSenderCheck(e, secret, amount, sender) ==
    IF Blake2b256(secret) # e.secret_hash THEN E_BAD_SECRET
    ELSE IF ~(amount <= e.amount) THEN E_AMOUNT_ABOVE_DEPOSIT
    ELSE IF ~(amount > 0) THEN E_ZERO_AMOUNT
    ELSE IF e.balance < amount THEN E_BALANCE_NOT_ENOUGH
    ELSE 0

\* withdraw paying from a balance that never runs short
WithdrawAbortNoSplitCheck(e, secret, amount, sender) ==
    IF Blake2b256(secret) # e.secret_hash THEN E_BAD_SECRET
    ELSE IF sender # e.redeemer THEN E_NOT_REDEEMER
    ELSE IF ~(amount <= e.amount) THEN E_AMOUNT_ABOVE_DEPOSIT
    ELSE IF ~(amount > 0) THEN E_ZERO_AMOUNT
    ELSE 0

\* The abort code of withdraw(escrow, secret, amount, ctx), 0 when it does not
\* abort: the four asserts in their order, then balance::split
WithdrawAbort(e, secret, amount, sender) ==
    IF Blake2b256(secret) # e.secret_hash THEN E_BAD_SECRET
    ELSE IF sender # e.redeemer THEN E_NOT_REDEEMER
    ELSE IF ~(amount <= e.amount) THEN E_AMOUNT_ABOVE_DEPOSIT
    ELSE IF ~(amount > 0) THEN E_ZERO_AMOUNT
    ELSE IF e.balance < amount THEN E_BALANCE_NOT_ENOUGH
    ELSE 0

\* withdraw that forgets to count the fill
WithdrawEscrowNoFill(e, amount) == [e EXCEPT !.balance = @ - amount]

\* The escrow after a withdraw that does not abort
WithdrawEscrow(e, amount) ==
    [e EXCEPT !.balance = @ - amount, !.total_filled = @ + amount]

\* withdraw that takes every fill for a partial one
WithdrawEventNeverRedeemed(e, secret, amount, sender) == PartialFill(e, amount, sender)

\* The event a withdraw that does not abort emits; e is the escrow after it
WithdrawEvent(e, secret, amount, sender) ==
    IF e.total_filled = e.amount
    THEN Redeemed(e, secret, amount, sender)
    ELSE PartialFill(e, amount, sender)

\* refund with `>=` for `>` in its time assert
RefundAbortAtTimelock(e, now, sender) ==
    IF ~(now >= e.timelock) THEN E_TOO_EARLY
    ELSE IF sender # e.initiator THEN E_NOT_INITIATOR
    ELSE 0

\* refund without its initiator assert
RefundAbortNoInitiatorCheck(e, now, sender) ==
    IF ~(now > e.timelock) THEN E_TOO_EARLY
    ELSE 0

\* The abort code of refund(escrow, clock, ctx), 0 when it does not abort
RefundAbort(e, now, sender) ==
    IF ~(now > e.timelock) THEN E_TOO_EARLY
    ELSE IF sender # e.initiator THEN E_NOT_INITIATOR
    ELSE 0

\* refund that also clears the fill count
RefundEscrowResetFilled(e) == [e EXCEPT !.balance = 0, !.total_filled = 0]

\* The escrow after a refund that does not abort
RefundEscrow(e) == [e EXCEPT !.balance = 0]

Tx(op, sender, secret, amount, code) ==
    [op |-> op, sender |-> sender, secret |-> secret, amount |-> amount,
     code |-> code]

\* deposit<T>: builds the escrow from the coin and emits Initiated
DepositCall(initiator, redeemer, secret_hash, value, timelock, pfa, sender) ==
    /\ escrow = NoEscrow
    /\ escrow' = NewEscrow(initiator, redeemer, secret_hash, value, timelock,
                           create_auction_params(100, 1000, 1000, 2000, 10), pfa)
    /\ events' = Append(events, Initiated(escrow'))
    /\ received' = received
    /\ lastTx' = Tx("deposit", sender, "", value, 0)

\* withdraw<T> as one transaction sent by `sender`
WithdrawCall(secret, amount, sender) ==
    /\ escrow # NoEscrow
    /\ LET code == WithdrawAbort(escrow, secret, amount, sender) IN
       /\ lastTx' = Tx("withdraw", sender, secret, amount, code)
       /\ IF code = 0
          THEN /\ escrow' = WithdrawEscrow(escrow, amount)
               /\ events' = Append(events, WithdrawEvent(escrow', secret, amount, sender))
               /\ received' = [received EXCEPT ![sender] = @ + amount]
          ELSE UNCHANGED ledger

\* refund<T> as one transaction sent by `sender`
RefundCall(sender) ==
    /\ escrow # NoEscrow
    /\ LET code == RefundAbort(escrow, clock, sender)
           remaining_amount == escrow.balance IN
       /\ lastTx' = Tx("refund", sender, "", 0, code)
       /\ IF code = 0 /\ remaining_amount > 0
          THEN /\ escrow' = RefundEscrow(escrow)
               /\ events' = Append(events, Refunded(escrow, remaining_amount, sender))
               /\ received' = [received EXCEPT ![sender] = @ + remaining_amount]
          ELSE UNCHANGED ledger

----------------------------------------------------------------------------
(* The ledger driven by arbitrary callers *)

NoOrder == [orderId |-> 0]

\* useState(false), useState(null) x 3 of useRealSwap, before any call
NoHook ==
    [isLoading |-> FALSE, error |-> "null", swapResult |-> [status |-> "null"],
     swapProgress |-> "null", calls |-> 0]

LedgerInit ==
    /\ escrow = NoEscrow
    /\ clock = 0
    /\ events = <<>>
    /\ received = [a \in Addresses |-> 0]
    /\ lastTx = Tx("none", "", "", 0, 0)

Init ==
    /\ LedgerInit
    /\ network = "ETHEREUM"
    /\ order = NoOrder
    /\ swapAmount = 0
    /\ pc = "idle"
    /\ flow = "none"
    /\ ethTxs = <<>>
    /\ apiEscrows = <<>>
    /\ apiReqs = <<>>
    /\ hook = NoHook

Deposit ==
    \E initiator \in {ALICE, BOB}, redeemer \in {BOB, CAROL},
       secret_hash \in {Blake2b256("correct_secret"), Sha256("correct_secret")},
       value \in 0 .. MaxAmount, timelock \in 0 .. MaxTimelock,
       pfa \in BOOLEAN :
        /\ DepositCall(initiator, redeemer, secret_hash, value, timelock, pfa, initiator)
        /\ UNCHANGED <<clock, driver>>

Withdraw ==
    \E secret \in Secrets, amount \in 0 .. MaxAmount + 1, sender \in Addresses :
        /\ WithdrawCall(secret, amount, sender)
        /\ UNCHANGED <<clock, driver>>

Refund ==
    \E sender \in Addresses :
        /\ RefundCall(sender)
        /\ UNCHANGED <<clock, driver>>

\* the ledger's clock advances
Tick ==
    /\ clock < MaxTimelock + 1
    /\ clock' = clock + 1
    /\ lastTx' = Tx("tick", "", "", 0, 0)
    /\ UNCHANGED <<ledger, driver>>

Next == Deposit \/ Withdraw \/ Refund \/ Tick

Spec == Init /\ [][Next]_vars

----------------------------------------------------------------------------
(* scripts/real_swap.js and scripts/bidirectional_demo.js: the clients and *)
(* the coordinator scripts that drive one order through its steps         *)

\* Buffer.toString('hex') and Buffer.from(.., 'hex'): the bytes as a hex string
ToHex(bytes) == [hex |-> bytes]

FromHex(str) == str.hex

\* keypair.getPublicKey().toSuiAddress() of SuiHTLCClient
suiAddress == ALICE

\* EthereumClient.getAddress(), passed as the escrow's redeemer
ethAddress == BOB

\* The coordinator's deadlines, in clock steps of ten minutes.
\* `Date.now() + (20 * 60 * 1000)` of executeCrossChainSwap
SwapTimelock == 2

\* `Date.now() + (30 * 60 * 1000)` of demoSuiToEth and demoEthToSui
DemoTimelock == 3

\* `expiresAt: Date.now() + (30 * 60 * 1000)` of every order createFusionOrder
\* returns
OrderExpiry == 3

\* the coordinator scripts: executeCrossChainSwap of real_swap.js and the two
\* directions of bidirectional_demo.js
Flows == {"executeCrossChainSwap", "demoSuiToEth", "demoEthToSui"}

\* createFusionOrder on a network other than BASE_SEPOLIA. The SDK path
\* (outcome "submitted") and the NotEnoughBalanceOrAllowance path both return
\* secretHash and secret from two separate crypto.randomBytes(32) draws; any
\* other error is rethrown.
FusionOrder(outcome, secretBytes, hashBytes, now) ==
    [orderId |-> 1,
     secretHash |-> ToHex(hashBytes),
     secret |-> ToHex(secretBytes),
     expiresAt |-> now + OrderExpiry,
     kind |-> outcome]

\* createBaseSpoliaTestOrder: secretHash is the SHA-256 digest of the secret
BaseSpoliaTestOrder(secretBytes, now) ==
    [orderId |-> 1,
     secretHash |-> ToHex(Sha256(secretBytes)),
     secret |-> ToHex(secretBytes),
     expiresAt |-> now + OrderExpiry,
     kind |-> "testnet"]

Step(op) == Tx(op, "", "", 0, 0)

\* demoEthToSui runs the Ethereum step before it locks SUI, and names its own
\* Sui address as the redeemer; the other two scripts lock first and name the
\* Ethereum address
EthFirstInEveryFlow == flow \in Flows

EthFirst == flow = "demoEthToSui"

createFusionOrder ==
    /\ pc = "start"
    /\ network # "BASE_SEPOLIA"
    /\ \E outcome \in {"submitted", "NotEnoughBalanceOrAllowance", "error"},
          secretBytes \in Secrets, hashBytes \in HashValues :
          IF outcome = "error"
          THEN /\ pc' = "failed"
               /\ order' = order
          ELSE /\ pc' = "order"
               /\ order' = FusionOrder(outcome, secretBytes, hashBytes, clock)
    /\ lastTx' = Step("createFusionOrder")
    /\ UNCHANGED <<ledger, clock, network, swapAmount, flow, ethTxs, api, hook>>

createBaseSpoliaTestOrder ==
    /\ pc = "start"
    /\ network = "BASE_SEPOLIA"
    /\ \E secretBytes \in Secrets :
          order' = BaseSpoliaTestOrder(secretBytes, clock)
    /\ pc' = "order"
    /\ lastTx' = Step("createFusionOrder")
    /\ UNCHANGED <<ledger, clock, network, swapAmount, flow, ethTxs, api, hook>>

\* suiClient.createEscrow(redeemer, secretHash, requiredSui, timelock) with
\* timelock = Date.now() + the script's duration. It throws on an insufficient
\* balance or a failed transaction.
createEscrow ==
    /\ pc = (IF EthFirst THEN "ethDone" ELSE "order")
    /\ \/ /\ DepositCall(suiAddress,
                         IF EthFirst THEN suiAddress ELSE ethAddress,
                         FromHex(order.secretHash), swapAmount,
                         clock + (IF flow = "executeCrossChainSwap"
                                  THEN SwapTimelock ELSE DemoTimelock),
                         TRUE, suiAddress)
          /\ pc' = "locked"
       \/ /\ pc' = "failed"
          /\ lastTx' = Step("createEscrow")
          /\ UNCHANGED ledger
    /\ UNCHANGED <<clock, network, order, swapAmount, flow, ethTxs, api, hook>>

\* ethClient.executeSwap('ETH', 'SUI', amount): a transfer of ETH from the
\* wallet to itself that carries no data; it throws on an insufficient
\* balance, a confirmation timeout or a failed receipt.
executeSwap ==
    /\ pc = (IF EthFirst THEN "order" ELSE "locked")
    /\ \/ /\ pc' = "ethDone"
          /\ ethTxs' = Append(ethTxs, [from |-> ethAddress, to |-> ethAddress,
                                       data |-> ""])
       \/ /\ pc' = "failed"
          /\ ethTxs' = ethTxs
    /\ lastTx' = Step("executeSwap")
    /\ UNCHANGED <<ledger, clock, network, order, swapAmount, flow, api, hook>>

\* suiClient.claimEscrow(escrow.escrowId, secret, requiredSui), signed by the
\* Sui keypair. claimEscrow returns status 'claimed' without looking at the
\* transaction's effects; the client may also throw.
claimEscrow ==
    /\ pc = (IF EthFirst THEN "locked" ELSE "ethDone")
    /\ WithdrawCall(FromHex(order.secret), swapAmount, suiAddress)
    /\ pc' \in IF lastTx'.code = 0 THEN {"claimed"} ELSE {"claimed", "failed"}
    /\ UNCHANGED <<clock, network, order, swapAmount, flow, ethTxs, api, hook>>

\* time passes between and after the script's steps
Wait ==
    /\ clock < MaxTimelock + DemoTimelock + 1
    /\ clock' = clock + 1
    /\ lastTx' = Step("wait")
    /\ UNCHANGED <<ledger, driver>>

\* what the script reports when it ends: executeCrossChainSwap prints
\* "Cross-Chain Swap Completed Successfully", the demos return
\* status: 'completed'; every error ends the run
swapStatus ==
    IF pc = "claimed" THEN "completed"
    ELSE IF pc = "failed" THEN "failed"
    ELSE "running"

SwapInit ==
    /\ LedgerInit
    /\ network \in {"ETHEREUM", "BASE_SEPOLIA"}
    /\ order = NoOrder
    /\ swapAmount \in 1 .. MaxAmount
    /\ pc = "start"
    /\ flow \in Flows
    /\ ethTxs = <<>>
    /\ apiEscrows = <<>>
    /\ apiReqs = <<>>
    /\ hook = NoHook

SwapNext ==
    \/ createFusionOrder
    \/ createBaseSpoliaTestOrder
    \/ createEscrow
    \/ executeSwap
    \/ claimEscrow
    \/ Wait

SpecSwap == SwapInit /\ [][SwapNext]_vars

----------------------------------------------------------------------------
(* The API server: POST /api/swap/create, /api/swap/lock, /api/swap/execute,*)
(* /api/swap/claim and GET /api/swap/:orderId/status. The server keeps one *)
(* fusionClient, whose orders map is the order store, and one suiClient;   *)
(* every request is served by its own async handler. The repository holds  *)
(* two builds of it: the current server with the clients of                *)
(* scripts/real_swap.js, and an earlier server with earlier clients.       *)

\* the number of requests the server receives from arbitrary clients
MaxRequests == 3

\* `const maxAmount = 0.1` of the lock handler, in the model's units of coin
ApiMaxAmount == 2

\* the order id apiService.claimEscrow sends: the string 'placeholder', which
\* is the key of no stored order
PlaceholderOrderId == 2

\* the order ids a request body can carry: the stored order's and an unknown one
OrderIds == {1, PlaceholderOrderId}

\* `'0x' + '0'.repeat(62) + '01'`, the escrow id the earlier createEscrow
\* returns when the transaction result holds no escrow object
MockEscrowId == 0

\* the two builds of the server
ApiBuilds == {"api", "api_legacy"}

Legacy == flow = "api_legacy"

\* the state of the caller of a handler
client == <<pc, swapAmount, hook>>

\* a request with the reply it got; txHash tells whether the reply's hash is
\* the digest of a transaction the server sent ("ledger") or made up
\* ("synthesized")
Request(route, orderId, escrowId, amount, reply, txHash) ==
    [route |-> route, orderId |-> orderId, escrowId |-> escrowId,
     amount |-> amount, reply |-> reply, txHash |-> txHash]

\* createTestOrder of the earlier OneinchFusionClient
TestOrder(secretBytes, now) ==
    [orderId |-> 1,
     secretHash |-> ToHex(Sha256(secretBytes)),
     secret |-> ToHex(secretBytes),
     expiresAt |-> now + OrderExpiry,
     kind |-> "test"]

\* this.orders.get(orderId): the stored order or undefined
getOrder(orderId) == order # NoOrder /\ order.orderId = orderId

\* what a handler answers for an order id that is not in the orders map. The
\* earlier getOrder asks the 1inch API first and falls back to the map only
\* when that request fails; an order the API returns has no secret and no
\* secretHash, so the handler throws and answers 500.
UnknownOrderReplies == IF Legacy THEN {"404", "500"} ELSE {"404"}

\* whether the record kept in the orders map has the secret and secretHash
\* fields: the SDK path and the NotEnoughBalanceOrAllowance path store a record
\* without them and only return them to the caller
StoredSecret == order.kind \in {"testnet", "test"}

\* `order.status || 'pending'` of the status handler
StoredStatus == IF "status" \in DOMAIN order THEN order.status ELSE "pending"

\* POST /api/swap/create: createFusionOrder stores the order it returns; an
\* error is answered with 500. The earlier createFusionOrder falls back to a
\* test order on every error.
CreateHandler ==
    /\ \/ /\ \E secretBytes \in Secrets, hashBytes \in HashValues,
                outcome \in {"submitted", "NotEnoughBalanceOrAllowance"} :
                order' = IF Legacy THEN TestOrder(secretBytes, clock)
                         ELSE IF network = "BASE_SEPOLIA"
                         THEN BaseSpoliaTestOrder(secretBytes, clock)
                         ELSE FusionOrder(outcome, secretBytes, hashBytes, clock)
          /\ apiReqs' = Append(apiReqs, Request("create", 1, 0, 0, "created", "none"))
       \/ /\ ~Legacy
          /\ network # "BASE_SEPOLIA"
          /\ order' = order
          /\ apiReqs' = Append(apiReqs, Request("create", 0, 0, 0, "500", "none"))
    /\ lastTx' = Step("apiCreate")
    /\ UNCHANGED <<ledger, clock, network, flow, ethTxs, apiEscrows>>

\* POST /api/swap/lock up to `await fusionClient.getOrder(orderId)`: 404 when
\* getOrder returns nothing, otherwise the handler goes on to create the escrow
LockHandler(orderId, amount) ==
    /\ \E reply \in (IF getOrder(orderId) THEN {"awaiting"} ELSE UnknownOrderReplies) :
          apiReqs' = Append(apiReqs, Request("lock", orderId, 0, amount, reply, "none"))
    /\ lastTx' = Step("apiLock")
    /\ UNCHANGED <<ledger, clock, network, order, flow, ethTxs, apiEscrows>>

\* the amount the lock handler deposits: min(amount, maxAmount); the earlier
\* handler deposits the requested amount
LockAmount(amount) ==
    IF Legacy \/ amount < ApiMaxAmount THEN amount ELSE ApiMaxAmount

\* the rest of the lock handler: suiClient.createEscrow(ethAddress, secretHash,
\* amount, Date.now() + 20 minutes) deposits into a new escrow object and the
\* handler answers 'locked'; a throw is answered with 500. Reading secretHash
\* off a stored order that has none throws. The earlier createEscrow answers
\* with the mock escrow id when the transaction created no escrow object.
LockEscrowHandler(r) ==
    /\ apiReqs[r].route = "lock"
    /\ apiReqs[r].reply = "awaiting"
    /\ LET value == LockAmount(apiReqs[r].amount) IN
       \/ LET id == Len(apiEscrows) + 1
              e == [NewEscrow(suiAddress, ethAddress, FromHex(order.secretHash),
                              value, clock + SwapTimelock,
                              create_auction_params(100, 1000, 1000, 2000, 10),
                              TRUE) EXCEPT !.id = id]
          IN /\ StoredSecret
             /\ apiEscrows' = Append(apiEscrows, e)
             /\ events' = Append(events, Initiated(e))
             /\ apiReqs' = [apiReqs EXCEPT ![r].reply = "locked", ![r].escrowId = id,
                                          ![r].txHash = "ledger"]
             /\ lastTx' = Tx("deposit", suiAddress, "", value, 0)
       \/ /\ Legacy
          /\ StoredSecret
          /\ apiReqs' = [apiReqs EXCEPT ![r].reply = "locked",
                                       ![r].escrowId = MockEscrowId,
                                       ![r].txHash = "ledger"]
          /\ lastTx' = Step("createEscrow")
          /\ UNCHANGED <<apiEscrows, events>>
       \/ /\ apiReqs' = [apiReqs EXCEPT ![r].reply = "500"]
          /\ lastTx' = Step("createEscrow")
          /\ UNCHANGED <<apiEscrows, events>>
    /\ UNCHANGED <<escrow, received, clock, network, order, flow, ethTxs>>

\* POST /api/swap/execute, a route of the current server only. For a direction
\* that names ETH it runs ethClient.executeSwap and answers with the confirmed
\* transaction; an 'insufficient' error is answered with 400; after any other
\* error, and for the other directions, it answers with what
\* fusionClient.executeCrossChainSwap returns: a fixed demo hash, or a throw
\* for an unknown order.
ExecuteHandler(orderId, ethSide) ==
    /\ \/ /\ Legacy
          /\ apiReqs' = Append(apiReqs, Request("execute", orderId, 0, 0, "404", "none"))
          /\ ethTxs' = ethTxs
       \/ /\ ~Legacy
          /\ ethSide
          /\ apiReqs' = Append(apiReqs, Request("execute", orderId, 0, 0, "confirmed", "ledger"))
          /\ ethTxs' = Append(ethTxs, [from |-> ethAddress, to |-> ethAddress,
                                       data |-> ""])
       \/ /\ ~Legacy
          /\ ethSide
          /\ apiReqs' = Append(apiReqs, Request("execute", orderId, 0, 0, "400", "none"))
          /\ ethTxs' = ethTxs
       \/ /\ ~Legacy
          /\ apiReqs' = Append(apiReqs,
                IF getOrder(orderId)
                THEN Request("execute", orderId, 0, 0, "executed", "synthesized")
                ELSE Request("execute", orderId, 0, 0, "500", "none"))
          /\ ethTxs' = ethTxs
    /\ lastTx' = Step("apiExecute")
    /\ UNCHANGED <<ledger, clock, network, order, flow, apiEscrows>>

\* POST /api/swap/claim: 404 for an unknown order; otherwise
\* suiClient.claimEscrow(escrowId, order.secret, amount), a withdraw signed by
\* the server's Sui keypair, answered 'claimed' whatever the transaction did.
\* Reading the secret off a stored order that has none throws, and so does
\* a transaction on an object id that does not exist. The earlier claimEscrow
\* answers 'claimed' with a random hash for the mock escrow id.
ClaimHandler(escrowId, orderId, amount) ==
    /\ IF ~getOrder(orderId)
       THEN /\ \E reply \in UnknownOrderReplies :
                  apiReqs' = Append(apiReqs, Request("claim", orderId, escrowId, amount, reply, "none"))
            /\ lastTx' = Step("apiClaim")
            /\ UNCHANGED <<apiEscrows, events, received>>
       ELSE IF ~StoredSecret
       THEN /\ apiReqs' = Append(apiReqs, Request("claim", orderId, escrowId, amount, "500", "none"))
            /\ lastTx' = Step("apiClaim")
            /\ UNCHANGED <<apiEscrows, events, received>>
       ELSE IF Legacy /\ escrowId = MockEscrowId
       THEN /\ apiReqs' = Append(apiReqs, Request("claim", orderId, escrowId, amount, "claimed", "synthesized"))
            /\ lastTx' = Step("apiClaim")
            /\ UNCHANGED <<apiEscrows, events, received>>
       ELSE IF escrowId \notin 1 .. Len(apiEscrows)
       THEN /\ apiReqs' = Append(apiReqs, Request("claim", orderId, escrowId, amount, "500", "none"))
            /\ lastTx' = Step("apiClaim")
            /\ UNCHANGED <<apiEscrows, events, received>>
       ELSE LET e == apiEscrows[escrowId]
                secret == FromHex(order.secret)
                code == WithdrawAbort(e, secret, amount, suiAddress)
            IN /\ apiReqs' = Append(apiReqs, Request("claim", orderId, escrowId, amount, "claimed", "ledger"))
               /\ lastTx' = Tx("withdraw", suiAddress, secret, amount, code)
               /\ IF code = 0
                  THEN /\ apiEscrows' = [apiEscrows EXCEPT ![escrowId] = WithdrawEscrow(e, amount)]
                       /\ events' = Append(events, WithdrawEvent(apiEscrows'[escrowId], secret, amount, suiAddress))
                       /\ received' = [received EXCEPT ![suiAddress] = @ + amount]
                  ELSE UNCHANGED <<apiEscrows, events, received>>
    /\ UNCHANGED <<escrow, clock, network, order, flow, ethTxs>>

\* GET /api/swap/:orderId/status
StatusHandler(orderId) ==
    /\ \E reply \in (IF getOrder(orderId) THEN {StoredStatus}
                     ELSE IF Legacy THEN {"404", "pending"} ELSE {"404"}) :
          apiReqs' = Append(apiReqs, Request("status", orderId, 0, 0, reply, "none"))
    /\ lastTx' = Step("apiStatus")
    /\ UNCHANGED <<ledger, clock, network, order, flow, ethTxs, apiEscrows>>

apiCreate ==
    /\ Len(apiReqs) < MaxRequests
    /\ order = NoOrder
    /\ CreateHandler
    /\ UNCHANGED client

apiLock ==
    /\ Len(apiReqs) < MaxRequests
    /\ \E orderId \in OrderIds, amount \in 1 .. MaxAmount : LockHandler(orderId, amount)
    /\ UNCHANGED client

apiLockEscrow ==
    /\ \E r \in 1 .. Len(apiReqs) : LockEscrowHandler(r)
    /\ UNCHANGED client

apiExecute ==
    /\ Len(apiReqs) < MaxRequests
    /\ \E orderId \in OrderIds, ethSide \in BOOLEAN : ExecuteHandler(orderId, ethSide)
    /\ UNCHANGED client

apiClaim ==
    /\ Len(apiReqs) < MaxRequests
    /\ \E escrowId \in {MockEscrowId} \cup (1 .. Len(apiEscrows)),
          orderId \in OrderIds, amount \in 1 .. MaxAmount :
          ClaimHandler(escrowId, orderId, amount)
    /\ UNCHANGED client

apiStatus ==
    /\ Len(apiReqs) < MaxRequests
    /\ \E orderId \in OrderIds : StatusHandler(orderId)
    /\ UNCHANGED client

ApiInit ==
    /\ LedgerInit
    /\ network \in {"ETHEREUM", "BASE_SEPOLIA"}
    /\ order = NoOrder
    /\ swapAmount = 0
    /\ pc = "idle"
    /\ flow \in ApiBuilds
    /\ ethTxs = <<>>
    /\ apiEscrows = <<>>
    /\ apiReqs = <<>>
    /\ hook = NoHook

ApiNext ==
    \/ apiCreate
    \/ apiLock
    \/ apiLockEscrow
    \/ apiExecute
    \/ apiClaim
    \/ apiStatus

SpecApi == ApiInit /\ [][ApiNext]_vars

----------------------------------------------------------------------------
(* ui/src/hooks/useRealSwap.js: executeSwap drives one swap through        *)
(* apiService, which posts to the API server; calls run one after another. *)

\* the number of executeSwap calls
MaxCalls == 2

\* the request of the given route that arrived last
LastOf(route) ==
    LET idx == {r \in 1 .. Len(apiReqs) : apiReqs[r].route = route}
    IN apiReqs[CHOOSE r \in idx : \A q \in idx : q <= r]

\* catch and finally of executeSwap: setError(err.message),
\* setSwapProgress(null), setIsLoading(false)
HookFail(h, msg) ==
    [h EXCEPT !.error = msg, !.swapProgress = "null", !.isLoading = FALSE]

\* the end of the try block and finally: setSwapResult(realSwapResult),
\* setSwapProgress('Swap completed successfully!'), setIsLoading(false)
HookDone(h, result) ==
    [h EXCEPT !.swapResult = result,
              !.swapProgress = "Swap completed successfully!",
              !.isLoading = FALSE]

\* the reply the handler just wrote for the request that arrived last
NewReply == apiReqs'[Len(apiReqs')].reply

\* executeSwap up to its first await: setIsLoading(true), setError(null),
\* setSwapProgress('Creating order...')
hookExecuteSwap ==
    /\ flow \in ApiBuilds
    /\ pc \in {"idle", "claimed", "failed"}
    /\ hook.calls < MaxCalls
    /\ swapAmount' \in 1 .. MaxAmount
    /\ hook' = [hook EXCEPT !.isLoading = TRUE, !.error = "null",
                            !.swapProgress = "Creating order...",
                            !.calls = @ + 1]
    /\ pc' = "hookCreate"
    /\ lastTx' = Step("hookExecuteSwap")
    /\ UNCHANGED <<ledger, clock, network, order, flow, ethTxs, api>>

\* Step 1: apiService.createFusionOrder posts /swap/create
hookCreateOrder ==
    /\ pc = "hookCreate"
    /\ CreateHandler
    /\ IF NewReply = "created"
       THEN /\ pc' = "hookLock"
            /\ hook' = [hook EXCEPT !.swapProgress = "Creating HTLC escrow on Sui..."]
       ELSE /\ pc' = "failed"
            /\ hook' = HookFail(hook, "Failed to create order")
    /\ UNCHANGED swapAmount

\* Step 2: apiService.createEscrow posts /swap/lock with the order's id and the
\* amount
hookCreateEscrow ==
    /\ pc = "hookLock"
    /\ LockHandler(order.orderId, swapAmount)
    /\ IF NewReply = "awaiting"
       THEN /\ pc' = "hookLocking"
            /\ hook' = hook
       ELSE /\ pc' = "failed"
            /\ hook' = HookFail(hook, "Order not found")
    /\ UNCHANGED swapAmount

\* the lock request is answered
hookEscrowReply ==
    /\ pc = "hookLocking"
    /\ LockEscrowHandler(Len(apiReqs))
    /\ IF NewReply = "locked"
       THEN /\ pc' = "hookExecute"
            /\ hook' = [hook EXCEPT !.swapProgress = "Executing cross-chain transaction..."]
       ELSE /\ pc' = "failed"
            /\ hook' = HookFail(hook, "Failed to create escrow")
    /\ UNCHANGED swapAmount

\* Step 3: apiService.executeCrossChainSwap posts /swap/execute; both
\* directions of the hook name ETH
hookExecute ==
    /\ pc = "hookExecute"
    /\ ExecuteHandler(order.orderId, TRUE)
    /\ IF NewReply \in {"confirmed", "executed"}
       THEN /\ pc' = "hookClaim"
            /\ hook' = [hook EXCEPT !.swapProgress = "Claiming funds..."]
       ELSE /\ pc' = "failed"
            /\ hook' = HookFail(hook, "Failed to execute cross-chain swap")
    /\ UNCHANGED swapAmount

\* Step 4: apiService.claimEscrow posts /swap/claim with the escrow id of the
\* lock reply, orderId 'placeholder' and the amount; on success the hook stores
\* the result with status 'completed'
hookClaim ==
    /\ pc = "hookClaim"
    /\ ClaimHandler(LastOf("lock").escrowId, PlaceholderOrderId, swapAmount)
    /\ IF NewReply = "claimed"
       THEN /\ pc' = "claimed"
            /\ hook' = HookDone(hook,
                   [status |-> "completed",
                    escrowCreation |-> LastOf("lock").txHash,
                    fundsClaim |-> apiReqs'[Len(apiReqs')].txHash])
       ELSE /\ pc' = "failed"
            /\ hook' = HookFail(hook, "Order not found")
    /\ UNCHANGED swapAmount

\* resetSwap
resetSwap ==
    /\ hook' = [hook EXCEPT !.swapResult = [status |-> "null"], !.error = "null",
                            !.swapProgress = "null", !.isLoading = FALSE]
    /\ hook' # hook
    /\ lastTx' = Step("resetSwap")
    /\ UNCHANGED <<ledger, clock, network, order, swapAmount, pc, flow, ethTxs, api>>

HookInit == ApiInit

HookNext ==
    \/ hookExecuteSwap
    \/ hookCreateOrder
    \/ hookCreateEscrow
    \/ hookEscrowReply
    \/ hookExecute
    \/ hookClaim
    \/ resetSwap

SpecHook == HookInit /\ [][HookNext]_vars

\* The hook on its own: the backend at REACT_APP_API_URL is its environment,
\* so each awaited apiService call resolves with success true or false.
HookAwaits == <<"hookCreate", "hookLock", "hookExecute", "hookClaim">>

\* the progress text executeSwap sets before each await
HookProgress ==
    <<"Creating order...", "Creating HTLC escrow on Sui...",
      "Executing cross-chain transaction...", "Claiming funds...">>

apiServiceReply ==
    /\ \E k \in 1 .. Len(HookAwaits), success \in BOOLEAN :
          /\ pc = HookAwaits[k]
          /\ IF ~success
             THEN /\ pc' = "failed"
                  /\ hook' = HookFail(hook, "Failed")
             ELSE IF k < Len(HookAwaits)
             THEN /\ pc' = HookAwaits[k + 1]
                  /\ hook' = [hook EXCEPT !.swapProgress = HookProgress[k + 1]]
             ELSE /\ pc' = "claimed"
                  /\ hook' = HookDone(hook, [status |-> "completed",
                                             escrowCreation |-> "reply",
                                             fundsClaim |-> "reply"])
    /\ lastTx' = Step("apiServiceReply")
    /\ UNCHANGED <<ledger, clock, network, order, swapAmount, flow, ethTxs, api>>

HookAloneNext ==
    \/ hookExecuteSwap
    \/ apiServiceReply
    \/ resetSwap

SpecHookAlone == HookInit /\ [][HookAloneNext]_vars

\* the steps of a swap, taken by the script or by the hook
OrderInit == SwapInit \/ HookInit

OrderNext ==
    \/ createFusionOrder
    \/ createBaseSpoliaTestOrder
    \/ createEscrow
    \/ executeSwap
    \/ claimEscrow
    \/ HookNext

SpecOrder == OrderInit /\ [][OrderNext]_vars

----------------------------------------------------------------------------
(* What the ledger's event log says about the escrow *)

RECURSIVE SumClaimed(_)
\* the sum of the amounts the Redeemed and PartialFill events report
SumClaimed(evs) ==
    IF evs = <<>> THEN 0
    ELSE LET ev == Head(evs) IN
         (IF ev.type = "Redeemed" THEN ev.amount
          ELSE IF ev.type = "PartialFill" THEN ev.filled_amount
          ELSE 0) + SumClaimed(Tail(evs))

RECURSIVE SumRefunded(_)
\* the sum of the amounts the Refunded events report
SumRefunded(evs) ==
    IF evs = <<>> THEN 0
    ELSE LET ev == Head(evs) IN
         (IF ev.type = "Refunded" THEN ev.amount ELSE 0) + SumRefunded(Tail(evs))

\* the number of successful claims
NumClaims(evs) ==
    Cardinality({i \in 1 .. Len(evs) : evs[i].type \in {"Redeemed", "PartialFill"}})

\* this step is a withdraw transaction on the escrow
WithdrawStep == escrow # NoEscrow /\ lastTx'.op = "withdraw"

\* this step is a refund transaction on the escrow
RefundStep == escrow # NoEscrow /\ lastTx'.op = "refund"

----------------------------------------------------------------------------
(* Claims *)

\* C1 as stated: in every reachable state total_filled + balance = amount and
\* balance >= 0, whatever mix of claims and refunds has occurred.
C1_Original ==
    escrow # NoEscrow =>
        /\ escrow.total_filled + escrow.balance = escrow.amount
        /\ escrow.balance >= 0

\* C1 amended: total_filled + balance + refunded = amount and balance >= 0 in
\* every reachable state, where refunded is what refund returned to the
\* initiator and total_filled is the sum of the successful claims; until a
\* refund moves funds total_filled + balance = amount.
C1_Conservation ==
    escrow # NoEscrow =>
        /\ escrow.balance >= 0
        /\ escrow.total_filled = SumClaimed(events)
        /\ escrow.total_filled + escrow.balance + SumRefunded(events) = escrow.amount
        /\ SumRefunded(events) = 0 =>
               escrow.total_filled + escrow.balance = escrow.amount

\* a partial claim followed by a refund of the rest
C1_Witness ==
    /\ escrow # NoEscrow
    /\ escrow.total_filled > 0
    /\ SumRefunded(events) > 0

\* C2: a withdraw whose preimage does not hash to secret_hash aborts with 1000
\* for every caller and amount, and changes nothing on the ledger: escrow,
\* events and coin holdings stay as they were.
C2_BadSecretRejected ==
    [][(WithdrawStep /\ Blake2b256(lastTx'.secret) # escrow.secret_hash)
            => (lastTx'.code = E_BAD_SECRET /\ UNCHANGED ledger)]_vars

\* the redeemer tried a payable amount with the wrong preimage
C2_Witness ==
    /\ lastTx.op = "withdraw"
    /\ lastTx.code = E_BAD_SECRET
    /\ lastTx.sender = escrow.redeemer
    /\ lastTx.amount > 0
    /\ lastTx.amount <= escrow.balance

\* C3: the secret_hash the driver commits in the deposit is blake2b256 of the
\* order's stored secret, so a claim with the order's secret passes the hash
\* check.
C3_HashMatchesVerifier ==
    (escrow # NoEscrow /\ order # NoOrder) =>
        /\ escrow.secret_hash = Blake2b256(FromHex(order.secret))
        /\ lastTx.op = "withdraw" => lastTx.code # E_BAD_SECRET

\* C4: a refund at clock <= timelock aborts with 1002 and changes nothing; a
\* refund by the initiator at clock > timelock (so at timelock + 1) succeeds
\* and hands the whole balance to the initiator.
C4_RefundStrictlyAfterTimelock ==
    [][RefundStep =>
          /\ clock <= escrow.timelock =>
                 (lastTx'.code = E_TOO_EARLY /\ UNCHANGED ledger)
          /\ (clock > escrow.timelock /\ lastTx'.sender = escrow.initiator) =>
                 /\ lastTx'.code = 0
                 /\ escrow'.balance = 0
                 /\ received' = [received EXCEPT ![escrow.initiator] = @ + escrow.balance]
      ]_vars

\* the initiator refunded a funded escrow at exactly timelock + 1
C4_Witness ==
    /\ lastTx.op = "refund"
    /\ lastTx.code = 0
    /\ lastTx.sender = escrow.initiator
    /\ clock = escrow.timelock + 1
    /\ SumRefunded(events) > 0

\* C5: every withdraw attempted at clock > timelock fails, so at no ledger time
\* are both a claim and a refund of the escrow legal.
C5_ClaimBlockedAfterTimelock ==
    /\ (escrow # NoEscrow /\ lastTx.op = "withdraw" /\ clock > escrow.timelock)
           => lastTx.code # 0
    /\ escrow # NoEscrow =>
           ~ /\ RefundAbort(escrow, clock, escrow.initiator) = 0
             /\ \E secret \in Secrets, amount \in 1 .. MaxAmount :
                    WithdrawAbort(escrow, secret, amount, escrow.redeemer) = 0

\* C6: a withdraw sent by anyone but the redeemer fails and changes nothing,
\* with 1001 when the preimage is correct; a withdraw that succeeds transfers
\* its amount to the redeemer and to nobody else.
C6_OnlyRedeemerClaims ==
    [][WithdrawStep =>
          /\ lastTx'.sender # escrow.redeemer =>
                 (lastTx'.code # 0 /\ UNCHANGED ledger)
          /\ (lastTx'.sender # escrow.redeemer
                /\ Blake2b256(lastTx'.secret) = escrow.secret_hash) =>
                 lastTx'.code = E_NOT_REDEEMER
          /\ lastTx'.code = 0 =>
                 received' = [received EXCEPT ![escrow.redeemer] = @ + lastTx'.amount]
      ]_vars

\* somebody else presented the correct preimage for a payable amount
C6_Witness ==
    /\ lastTx.op = "withdraw"
    /\ lastTx.code = E_NOT_REDEEMER
    /\ lastTx.sender # escrow.redeemer
    /\ lastTx.amount > 0
    /\ lastTx.amount <= escrow.balance

\* C7 as stated: a refund that takes effect was sent by the initiator at
\* clock > timelock, and a refund from any other sender aborts with 1003 and
\* changes nothing.
C7_Original ==
    [][RefundStep =>
          /\ (lastTx'.code = 0 \/ ledger' # ledger) =>
                 (lastTx'.sender = escrow.initiator /\ clock > escrow.timelock)
          /\ lastTx'.sender # escrow.initiator =>
                 (lastTx'.code = E_NOT_INITIATOR /\ UNCHANGED ledger)
      ]_vars

\* C7 amended: a refund that takes effect was sent by the initiator at
\* clock > timelock; a refund from any other sender changes nothing and aborts,
\* with 1003 when clock > timelock and with 1002 (the time assert comes first)
\* when clock <= timelock.
C7_RefundOnlyByInitiator ==
    [][RefundStep =>
          /\ (lastTx'.code = 0 \/ ledger' # ledger) =>
                 (lastTx'.sender = escrow.initiator /\ clock > escrow.timelock)
          /\ lastTx'.sender # escrow.initiator =>
                 /\ UNCHANGED ledger
                 /\ lastTx'.code = IF clock > escrow.timelock
                                   THEN E_NOT_INITIATOR ELSE E_TOO_EARLY
      ]_vars

\* somebody else tried to refund a funded escrow after the timelock
C7_Witness ==
    /\ lastTx.op = "refund"
    /\ lastTx.code = E_NOT_INITIATOR
    /\ lastTx.sender # escrow.initiator
    /\ escrow.balance > 0
    /\ clock > escrow.timelock

\* C8: with partial fills allowed, once the successful claims sum to the
\* deposit the escrow is fully filled with nothing remaining; while they sum
\* to less (and nothing was refunded) it is not fully filled and holds the
\* deposit minus the sum so far; and any further claim on a fully claimed
\* escrow fails.
C8_PartialClaimsFill ==
    /\ [](( escrow # NoEscrow /\ escrow.partial_fills_allowed) =>
             /\ SumClaimed(events) = escrow.amount =>
                    (is_fully_filled(escrow) /\ get_remaining_amount(escrow) = 0)
             /\ (SumClaimed(events) < escrow.amount /\ SumRefunded(events) = 0) =>
                    /\ ~is_fully_filled(escrow)
                    /\ get_remaining_amount(escrow) = escrow.amount - SumClaimed(events))
    /\ [][(WithdrawStep /\ escrow.partial_fills_allowed
             /\ SumClaimed(events) = escrow.amount)
            => (lastTx'.code # 0 /\ UNCHANGED ledger)]_vars

\* several partial claims filled the escrow and one more unit was refused
C8_Witness ==
    /\ escrow # NoEscrow
    /\ escrow.partial_fills_allowed
    /\ NumClaims(events) >= 2
    /\ SumClaimed(events) = escrow.amount
    /\ is_fully_filled(escrow)
    /\ lastTx.op = "withdraw"
    /\ lastTx.amount = 1
    /\ lastTx.sender = escrow.redeemer
    /\ Blake2b256(lastTx.secret) = escrow.secret_hash
    /\ lastTx.code # 0

\* C9: a claim by the redeemer with the right preimage fails with the escrow's
\* amount-out-of-range codes (1004, 1005) whenever its amount is 0 or exceeds
\* the current balance, so the claims paid out never sum to more than the
\* deposit.
C9_AmountOutOfRange ==
    /\ [][(WithdrawStep
             /\ Blake2b256(lastTx'.secret) = escrow.secret_hash
             /\ lastTx'.sender = escrow.redeemer
             /\ (lastTx'.amount = 0 \/ lastTx'.amount > escrow.balance))
            => /\ lastTx'.code \in {E_AMOUNT_ABOVE_DEPOSIT, E_ZERO_AMOUNT}
               /\ UNCHANGED ledger]_vars
    /\ [](escrow # NoEscrow => SumClaimed(events) <= escrow.amount)

\* C10: with partial_fills_allowed = false, a claim of a positive amount by the
\* redeemer with the right preimage at clock <= timelock succeeds if and only
\* if the amount equals the current balance.
C10_NoPartialWhenDisallowed ==
    [][(WithdrawStep
          /\ ~escrow.partial_fills_allowed
          /\ Blake2b256(lastTx'.secret) = escrow.secret_hash
          /\ lastTx'.sender = escrow.redeemer
          /\ clock <= escrow.timelock
          /\ lastTx'.amount > 0)
         => (lastTx'.code = 0 <=> lastTx'.amount = escrow.balance)]_vars

\* The escrow's status as the spec names it, read off the ledger: REFUNDED once
\* a refund has moved funds, FULLY_CLAIMED when is_fully_filled, OPEN otherwise
Status(e, evs) ==
    IF SumRefunded(evs) > 0 THEN "REFUNDED"
    ELSE IF is_fully_filled(e) THEN "FULLY_CLAIMED"
    ELSE "OPEN"

\* C11: an existing escrow's status changes only from OPEN, to FULLY_CLAIMED by
\* a withdraw or to REFUNDED by a refund, and once it is FULLY_CLAIMED or
\* REFUNDED no withdraw or refund by any caller at any time changes the escrow,
\* emits an event or moves funds.
C11_TerminalAbsorbing ==
    [][escrow # NoEscrow =>
          /\ Status(escrow, events) # "OPEN" => UNCHANGED ledger
          /\ Status(escrow', events') # Status(escrow, events) =>
                 /\ Status(escrow, events) = "OPEN"
                 /\ Status(escrow', events') = "FULLY_CLAIMED" =>
                        (lastTx'.op = "withdraw" /\ lastTx'.code = 0)
                 /\ Status(escrow', events') = "REFUNDED" =>
                        (lastTx'.op = "refund" /\ lastTx'.code = 0)
      ]_vars

\* the redeemer tried to claim one unit, with the right preimage, from an
\* escrow that had been partly claimed and then refunded
C11_Witness ==
    /\ escrow # NoEscrow
    /\ Status(escrow, events) = "REFUNDED"
    /\ escrow.total_filled > 0
    /\ lastTx.op = "withdraw"
    /\ lastTx.sender = escrow.redeemer
    /\ Blake2b256(lastTx.secret) = escrow.secret_hash
    /\ lastTx.amount = 1
    /\ lastTx.code # 0

\* C12: in every reachable state is_fully_filled holds if and only if
\* get_remaining_amount is 0 and the claims paid sum to the deposit; and a
\* freshly deposited escrow is not fully filled and holds its whole deposit.
C12_FullyFilledIffEmpty ==
    escrow # NoEscrow =>
        /\ is_fully_filled(escrow) <=>
               (get_remaining_amount(escrow) = 0
                  /\ SumClaimed(events) = escrow.amount)
        /\ lastTx.op = "deposit" =>
               (~is_fully_filled(escrow)
                  /\ get_remaining_amount(escrow) = escrow.amount)

\* C13: every event of a successful claim, PartialFill as well as Redeemed,
\* carries the preimage, and the Initiated event of a deposit carries
\* secret_hash, initiator, redeemer, amount and timelock.
C13_ClaimsRevealPreimage ==
    \A i \in 1 .. Len(events) :
        /\ events[i].type \in {"Redeemed", "PartialFill"} =>
               /\ "secret" \in DOMAIN events[i]
               /\ Blake2b256(events[i].secret) = escrow.secret_hash
        /\ events[i].type = "Initiated" =>
               /\ {"secret_hash", "initiator", "redeemer", "amount", "timelock"}
                      \subseteq DOMAIN events[i]
               /\ events[i].secret_hash = escrow.secret_hash
               /\ events[i].initiator = escrow.initiator
               /\ events[i].redeemer = escrow.redeemer
               /\ events[i].amount = escrow.amount
               /\ events[i].timelock = escrow.timelock

\* C14: a refund that does not abort transfers exactly the balance the escrow
\* held to the initiator and to nobody else, leaves the balance 0 and amount,
\* total_filled, secret_hash, redeemer, initiator and timelock as they were;
\* so once the escrow is empty the amounts paid to claims plus the amount
\* refunded equal the deposit.
C14_RefundReturnsRemaining ==
    /\ [][(RefundStep /\ lastTx'.code = 0) =>
             /\ received' = [received EXCEPT ![escrow.initiator] = @ + escrow.balance]
             /\ escrow' = [escrow EXCEPT !.balance = 0]
             /\ SumRefunded(events') = SumRefunded(events) + escrow.balance
         ]_vars
    /\ []((escrow # NoEscrow /\ escrow.balance = 0) =>
             SumClaimed(events) + SumRefunded(events) = escrow.amount)

\* the initiator got back the rest of a partly claimed escrow
C14_Witness ==
    /\ lastTx.op = "refund"
    /\ lastTx.code = 0
    /\ escrow.total_filled > 0
    /\ escrow.balance = 0
    /\ SumRefunded(events) > 0
    /\ SumRefunded(events) + escrow.total_filled = escrow.amount

\* C15: a refund of an escrow whose balance is 0 fails, also when the
\* initiator sends it after the timelock.
C15_NothingToRefund ==
    [][(RefundStep /\ get_remaining_amount(escrow) = 0) => lastTx'.code # 0]_vars

\* C16: a deposit creates no escrow with amount 0 and none whose timelock is
\* not strictly after the ledger clock at the deposit.
C16_DepositRejectsInvalid ==
    (escrow # NoEscrow /\ lastTx.op = "deposit") =>
        /\ escrow.amount > 0
        /\ escrow.timelock > clock

\* C17: the deadlines the coordinator assigns to the two sides of an order
\* are ordered. Side A, the side claimed last, is the Sui escrow: it is
\* claimed after the Ethereum step; side B's deadline is the order's
\* expiresAt. So expiresAt + safety_margin <= escrow.timelock, stated here for
\* the smallest margin, zero.
C17_TimelockOrdering ==
    (escrow # NoEscrow /\ order # NoOrder) =>
        order.expiresAt <= escrow.timelock

\* C18: whenever the swap is reported 'completed', the Sui escrow is fully
\* claimed with nothing remaining, and the order's preimage has been revealed
\* on both ledgers: in a Redeemed event on Sui and in a transaction on
\* Ethereum.
C18_CompletedMeansClaimed ==
    swapStatus = "completed" =>
        /\ escrow # NoEscrow
        /\ is_fully_filled(escrow)
        /\ get_remaining_amount(escrow) = 0
        /\ \E i \in 1 .. Len(events) :
              /\ events[i].type = "Redeemed"
              /\ events[i].secret = FromHex(order.secret)
        /\ \E j \in 1 .. Len(ethTxs) : ethTxs[j].data = FromHex(order.secret)

\* C19: requests that repeat a step for one order never double-submit: for
\* every order id the server issues at most one deposit, whatever the number
\* and interleaving of POST /api/swap/lock requests for it.
C19_NoDoubleSubmit ==
    \A o \in OrderIds :
        Cardinality({r \in 1 .. Len(apiReqs) :
                        /\ apiReqs[r].route = "lock"
                        /\ apiReqs[r].orderId = o
                        /\ apiReqs[r].reply = "locked"}) <= 1

\* C20: funds are never stranded by the coordinator. In the form of a finite
\* run: once the script has ended, an escrow it funded whose timelock has
\* passed and that is not fully claimed has been refunded.
C20_RefundAfterExpiry ==
    (/\ swapStatus # "running"
     /\ escrow # NoEscrow
     /\ clock > escrow.timelock
     /\ ~is_fully_filled(escrow)) => SumRefunded(events) > 0

----------------------------------------------------------------------------
\* C21: the hook can complete: against the current server, when no endpoint
\* and no ledger call of an executeSwap call failed (no reply of 400 or 500),
\* the call resolves with status 'completed' and carries the hashes of the
\* escrow creation and of the funds claim, instead of ending in the error
\* state.
C21_HookCanComplete ==
    (/\ ~Legacy
     /\ pc \in {"claimed", "failed"}
     /\ \A r \in 1 .. Len(apiReqs) : apiReqs[r].reply \notin {"400", "500"})
    => /\ pc = "claimed"
       /\ hook.swapResult.status = "completed"
       /\ hook.swapResult.escrowCreation = "ledger"
       /\ hook.swapResult.fundsClaim = "ledger"

\* C22: every 200 reply of POST /api/swap/execute carries the hash of a
\* transaction that was broadcast and confirmed on Base Sepolia, never a
\* synthesized one.
C22_ExecuteHashIsReal ==
    \A r \in 1 .. Len(apiReqs) :
        (apiReqs[r].route = "execute" /\ apiReqs[r].reply \in {"confirmed", "executed"})
        => apiReqs[r].txHash = "ledger"

\* C23: once a lock request for the stored order was answered 'locked', the
\* stored order holds the escrow id and the deposit's transaction id and has
\* the status A_LOCKED, so a status query no longer reports the status the
\* order was created with.
C23_LockRecordedOnOrder ==
    (\E r \in 1 .. Len(apiReqs) :
        /\ apiReqs[r].route = "lock"
        /\ apiReqs[r].reply = "locked"
        /\ getOrder(apiReqs[r].orderId))
    => /\ "escrowId" \in DOMAIN order
       /\ "depositTx" \in DOMAIN order
       /\ StoredStatus = "A_LOCKED"

\* C24: unknown escrow ids are rejected: every escrow id a lock reply returns
\* and every escrow id a claim is reported 'claimed' for is the id of an escrow
\* object a deposit created, never a mock id.
C24_NoMockEscrow ==
    \A r \in 1 .. Len(apiReqs) :
        (\/ apiReqs[r].route = "lock" /\ apiReqs[r].reply = "locked"
         \/ apiReqs[r].route = "claim" /\ apiReqs[r].reply = "claimed")
        => apiReqs[r].escrowId \in 1 .. Len(apiEscrows)

OrderSteps == <<"create", "lock", "execute", "claim">>

StepSucceeded(req) ==
    \/ req.route = "create" /\ req.reply = "created"
    \/ req.route = "lock" /\ req.reply = "locked"
    \/ req.route = "execute" /\ req.reply \in {"confirmed", "executed"}
    \/ req.route = "claim" /\ req.reply = "claimed"

\* the position of request r within its order: the requests since the last
\* create request
StepIndex(r) ==
    LET created == {q \in 1 .. r : apiReqs[q].route = "create"}
    IN r - (CHOOSE q \in created : \A o \in created : o <= q) + 1

\* the hook's requests: each order's requests are a prefix of create, lock,
\* execute, claim, and each follows a request that was answered with success
HookStepsOrdered ==
    \A r \in 1 .. Len(apiReqs) :
        /\ apiReqs[1].route = "create"
        /\ StepIndex(r) <= Len(OrderSteps)
        /\ apiReqs[r].route = OrderSteps[StepIndex(r)]
        /\ r > 1 /\ apiReqs[r].route # "create" => StepSucceeded(apiReqs[r - 1])

\* executeCrossChainSwap: the deposit follows the order, the Ethereum
\* transaction follows the deposit, the claim follows the Ethereum transaction
ScriptStepsOrdered ==
    flow = "executeCrossChainSwap" =>
        /\ escrow # NoEscrow => order # NoOrder
        /\ ethTxs # <<>> => escrow # NoEscrow
        /\ lastTx.op = "withdraw" => Len(ethTxs) = 1

\* C26: within one order the steps run in the order create order, deposit,
\* counter-ledger transaction, claim, each after the previous one returned
\* success, and after a failed step no later ledger operation is issued for
\* that order.
C26_StepsTotallyOrdered ==
    /\ [](flow \in ApiBuilds => HookStepsOrdered)
    /\ []ScriptStepsOrdered
    /\ [][pc = "failed" => UNCHANGED <<ledger, ethTxs, apiEscrows>>]_vars

C26_Witness ==
    /\ flow = "executeCrossChainSwap"
    /\ pc = "claimed"
    /\ order # NoOrder
    /\ escrow # NoEscrow
    /\ Len(ethTxs) = 1
    /\ lastTx.op = "withdraw"

\* C27: a lock and a claim with the same requested amount: the amount the
\* claim handler passes to withdraw equals the amount the lock handler
\* deposited in the escrow.
C27_ClaimAmountIsDeposit ==
    \A l, c \in 1 .. Len(apiReqs) :
        (/\ apiReqs[l].route = "lock"
         /\ apiReqs[l].reply = "locked"
         /\ apiReqs[l].escrowId \in 1 .. Len(apiEscrows)
         /\ apiReqs[c].route = "claim"
         /\ apiReqs[c].txHash = "ledger"
         /\ apiReqs[c].escrowId = apiReqs[l].escrowId
         /\ apiReqs[c].amount = apiReqs[l].amount)
        => apiReqs[c].amount = apiEscrows[apiReqs[l].escrowId].amount

\* C28: a lock or claim request whose orderId is not in the order store is
\* answered 404 and writes nothing: no escrow is created, no withdraw is sent
\* and the order store is unchanged.
C28_UnknownOrderRejected ==
    [][Len(apiReqs') = Len(apiReqs) + 1 =>
         LET req == apiReqs'[Len(apiReqs')]
         IN (req.route \in {"lock", "claim"} /\ ~getOrder(req.orderId))
            => /\ req.reply = "404"
               /\ UNCHANGED <<ledger, apiEscrows, ethTxs, order>>]_vars

\* the amount an event reports as withdrawn
FilledBy(ev) ==
    IF ev.type = "Redeemed" THEN ev.amount
    ELSE IF ev.type = "PartialFill" THEN ev.filled_amount
    ELSE 0

\* the amount the events of a log report as withdrawn, all together
RECURSIVE FilledByAll(_)
FilledByAll(log) ==
    IF log = <<>> THEN 0
    ELSE FilledBy(log[Len(log)]) + FilledByAll(SubSeq(log, 1, Len(log) - 1))

RedeemedEvents == {i \in 1 .. Len(events) : events[i].type = "Redeemed"}

\* C29: over any sequence of operations on one escrow, Redeemed is emitted at
\* most once, by the withdraw that brings the withdrawn total to the escrow's
\* amount; every other withdraw that takes effect emits one PartialFill whose
\* remaining_amount is the amount less the total withdrawn so far.
C29_RedeemedOnce ==
    /\ [](Cardinality(RedeemedEvents) <= 1)
    /\ [][(lastTx'.op = "withdraw" /\ lastTx'.code = 0) =>
            /\ Len(events') = Len(events) + 1
            /\ LET ev == events'[Len(events')]
                   filled == FilledByAll(events')
               IN IF filled = escrow'.amount
                  THEN /\ ev.type = "Redeemed"
                       /\ ev.secret = lastTx'.secret
                  ELSE /\ ev.type = "PartialFill"
                       /\ ev.filled_amount = lastTx'.amount
                       /\ ev.remaining_amount = escrow'.amount - filled]_vars

C29_Witness ==
    /\ \E i \in 1 .. Len(events) : events[i].type = "PartialFill"
    /\ Cardinality(RedeemedEvents) = 1
    /\ lastTx.op = "withdraw"
    /\ lastTx.code = 0

\* C30: when an executeSwap call settles, isLoading is false, error is
\* non-null exactly when the call failed and swapResult is non-null exactly
\* when it succeeded, whatever calls came before it.
C30_StateReflectsLastCall ==
    [][(pc \notin {"claimed", "failed"} /\ pc' \in {"claimed", "failed"}) =>
         /\ hook'.isLoading = FALSE
         /\ hook'.error # "null" <=> pc' = "failed"
         /\ hook'.swapResult.status # "null" <=> pc' = "claimed"]_vars

====
